---- MODULE Spec2Model ----
(***************************************************************************)
(* Verification model of two parts of sigma-rust:                          *)
(*   - ergo-lib/src/chain/digest32.rs : DigestDef<N> and its Base16 text   *)
(*     encoding (specification SpecDigest);                                *)
(*   - bindings/ergo-lib-wasm/src/wallet.rs : the Wallet entry points      *)
(*     (specification Spec).                                               *)
(* Text is a sequence of one-character strings, a byte is 0..255.          *)
(***************************************************************************)
EXTENDS Integers, Sequences, FiniteSets, TLC

VARIABLES
  digest,     \* the DigestDef<N> value in hand: Box<[u8; N]>, or None
  text,       \* the String in hand
  origin,     \* where text comes from: "none", "encoded", "external"
  decoded,    \* Result<DigestDef<N>, Digest32Error> of the last decode, or None
  store,      \* Wallet: the secrets of ergo_lib::wallet::Wallet, in order
  initial,    \* the list given to Wallet::from_secrets
  added,      \* the secrets given to Wallet::add_secret, in call order
  call,       \* the last entry point called and its arguments
  coreCalls,  \* the ergo_lib calls that entry point made, in order
  result      \* what it returned: Result<_, JsValue>

digestVars == <<digest, text, origin, decoded>>
walletVars == <<store, initial, added, call, coreCalls, result>>
vars == <<digest, text, origin, decoded, store, initial, added, call, coreCalls, result>>

None == [tag |-> "None"]

(***************************************************************************)
(* Digest                                                                  *)
(***************************************************************************)

\* Digest32Ref = DigestDef<32>
N == 32

\* longest external string tried by the decoder
MaxTextLen == 66

Byte == 0..255

HexLower == <<"0","1","2","3","4","5","6","7","8","9","a","b","c","d","e","f">>
HexUpper == <<"0","1","2","3","4","5","6","7","8","9","A","B","C","D","E","F">>

\* characters next to the borders of the three hexadecimal ranges
ExtChars == {"/","0","9",":","@","A","F","G","_","a","f","g"}
FillChars == {"0","f","E","g"}

IsHexChar(c) ==
  \E i \in 1..16 : HexLower[i] = c \/ HexUpper[i] = c

\* base16 decoding table: the value of a hexadecimal character
HexValue(c) ==
  (CHOOSE i \in 1..16 : HexLower[i] = c \/ HexUpper[i] = c) - 1

\* base16::encode_lower: two lowercase characters per byte, high nibble first
encode_lower(bytes) ==
  [i \in 1..(2 * Len(bytes)) |->
     IF i % 2 = 1 THEN HexLower[(bytes[(i + 1) \div 2] \div 16) + 1]
                  ELSE HexLower[(bytes[i \div 2] % 16) + 1]]

\* base16::decode: odd length is rejected first, then the first invalid byte
base16_decode(s) ==
  IF Len(s) % 2 # 0
    THEN [tag |-> "Err", kind |-> "InvalidLength", at |-> Len(s)]
    ELSE IF \E i \in 1..Len(s) : ~IsHexChar(s[i])
      THEN [tag |-> "Err", kind |-> "InvalidByte",
            at |-> (CHOOSE i \in 1..Len(s) :
                      /\ ~IsHexChar(s[i])
                      /\ \A j \in 1..(i - 1) : IsHexChar(s[j])) - 1]
      ELSE [tag |-> "Ok",
            val |-> [i \in 1..(Len(s) \div 2) |->
                       16 * HexValue(s[2 * i - 1]) + HexValue(s[2 * i])]]

\* Base16EncodedBytes::new(bytes) followed by into String
Base16EncodedBytes_new(bytes) == encode_lower(bytes)

\* Base16DecodedBytes::try_from(String)
Base16DecodedBytes_try_from(s) == base16_decode(s)

\* DigestDef::zero()
zero == [i \in 1..N |-> 0]

\* a defective encoder: low nibble first
DigestToString_swapped(v) ==
  [i \in 1..(2 * Len(v)) |->
     IF i % 2 = 1 THEN HexLower[(v[(i + 1) \div 2] % 16) + 1]
                  ELSE HexLower[(v[i \div 2] \div 16) + 1]]

\* impl From<DigestDef<N>> for String
DigestToString(v) == Base16EncodedBytes_new(v)

\* a defective conversion: takes the first N bytes of a longer slice
DigestFromBytes_prefix(bytes) ==
  IF Len(bytes) >= N
    THEN [tag |-> "Ok", val |-> SubSeq(bytes, 1, N)]
    ELSE [tag |-> "Err", kind |-> "InvalidSize"]

\* impl TryFrom<Base16DecodedBytes> for DigestDef<N>:
\* bytes.0.as_slice().try_into()? fails with TryFromSliceError -> InvalidSize
DigestFromBytes(bytes) ==
  IF Len(bytes) = N
    THEN [tag |-> "Ok", val |-> bytes]
    ELSE [tag |-> "Err", kind |-> "InvalidSize"]

\* a defective decoder: checks the length of the text before decoding it
DigestTryFromString_sizeFirst(value) ==
  IF Len(value) # 2 * N
    THEN [tag |-> "Err", kind |-> "InvalidSize"]
    ELSE LET bytes == Base16DecodedBytes_try_from(value)
         IN IF bytes.tag = "Err"
              THEN [tag |-> "Err", kind |-> "Base16DecodingError"]
              ELSE DigestFromBytes(bytes.val)

\* impl TryFrom<String> for DigestDef<N>:
\* Base16DecodedBytes::try_from(value)? maps base16::DecodeError to
\* Base16DecodingError, then DigestDef::<N>::try_from(bytes)
DigestTryFromString(value) ==
  LET bytes == Base16DecodedBytes_try_from(value)
  IN IF bytes.tag = "Err"
       THEN [tag |-> "Err", kind |-> "Base16DecodingError"]
       ELSE DigestFromBytes(bytes.val)

\* nothing in hand: no digest, no string
DigestIdle == digest = None /\ origin = "none"

\* DigestDef(Box::new(arr)): every byte b0 except byte b1 at position p
FromBytes(b0, p, b1) ==
  /\ DigestIdle
  /\ digest' = [i \in 1..N |-> IF i = p THEN b1 ELSE b0]
  /\ text' = <<>>
  /\ origin' = "none"
  /\ decoded' = None
  /\ UNCHANGED walletVars

\* DigestDef::zero()
Zero ==
  /\ DigestIdle
  /\ digest' = zero
  /\ text' = <<>>
  /\ origin' = "none"
  /\ decoded' = None
  /\ UNCHANGED walletVars

\* String::from(digest)
IntoString ==
  /\ digest # None
  /\ origin = "none"
  /\ text' = DigestToString(digest)
  /\ origin' = "encoded"
  /\ decoded' = None
  /\ UNCHANGED <<digest>>
  /\ UNCHANGED walletVars

\* the caller supplies a string of its own: len characters f, c at position p
ExternalText(len, f, p, c) ==
  /\ DigestIdle
  /\ text' = [i \in 1..len |-> IF i = p THEN c ELSE f]
  /\ origin' = "external"
  /\ decoded' = None
  /\ digest' = None
  /\ UNCHANGED walletVars

\* the caller cuts the encoded digest short or extends it by hex characters
ResizeText(delta, c) ==
  /\ origin = "encoded"
  /\ text' = [i \in 1..(Len(text) + delta) |-> IF i <= Len(text) THEN text[i] ELSE c]
  /\ origin' = "external"
  /\ decoded' = None
  /\ digest' = None
  /\ UNCHANGED walletVars

\* DigestDef::<N>::try_from(text)
TryFromString ==
  /\ origin # "none"
  /\ decoded = None
  /\ decoded' = DigestTryFromString(text)
  /\ UNCHANGED <<digest, text, origin>>
  /\ UNCHANGED walletVars

\* the values in hand go out of scope
DropDigest ==
  /\ decoded # None
  /\ digest' = None
  /\ text' = <<>>
  /\ origin' = "none"
  /\ decoded' = None
  /\ UNCHANGED walletVars

InitDigest ==
  /\ digest = None
  /\ text = <<>>
  /\ origin = "none"
  /\ decoded = None

(***************************************************************************)
(* Wallet: values                                                          *)
(***************************************************************************)

\* most inputs of an unsigned transaction
MaxInputs == 2

\* most secrets the store is grown to
MaxStore == 2

\* SecretKey: a DlogSecret and a DhTupleSecret
Secrets == {"s1", "s2"}

Dlog(pk) == [op |-> "dlog", pk |-> pk]
DhTuple(t) == [op |-> "dht", pk |-> t]

\* the public value a secret proves knowledge for
PublicImage(s) == IF s = "s1" THEN Dlog("pk1") ELSE DhTuple("t2")

\* leaves a remote party may have hinted: one owned by s1, one owned by nobody here
HintLeaves == {Dlog("pk1"), Dlog("pk3")}

BoxIds == {"b1", "b2", "b3"}
DataBoxIds == {"d1", "d2"}

\* the Proposition a box's guarding script reduces to
Guard(b) ==
  CASE b = "b1" -> Dlog("pk1")
    [] b = "b2" -> [op |-> "and",
                    items |-> <<DhTuple("t2"),
                                [op |-> "or", items |-> <<Dlog("pk1"), Dlog("pk3")>>]>>]
    [] OTHER    -> [op |-> "threshold", k |-> 2,
                    items |-> <<Dlog("pk1"), DhTuple("t2"), Dlog("pk3")>>]

SeqsUpTo(S, n) == UNION {[1..k -> S] : k \in 0..n}

DistinctSeqs(S, n) ==
  {s \in SeqsUpTo(S, n) : \A i, j \in 1..Len(s) : i # j => s[i] # s[j]}

\* UnsignedTransaction: at least one input, each box referenced once
UnsignedTxs ==
  {[inputs |-> ins, data_inputs |-> dins] :
     ins \in DistinctSeqs(BoxIds, MaxInputs) \ {<<>>},
     dins \in {<<>>, <<"d1">>}}

\* TransactionHintsBag: hints by input index; here no hint or a single one
Hints ==
  {[index |-> i, kind |-> k, real |-> TRUE, leaf |-> l] :
     i \in 0..(MaxInputs - 1), k \in {"commitment", "proof"}, l \in HintLeaves}

HintsBags == {{}} \cup {{h} : h \in Hints}

Addresses ==
  {[type |-> "P2Pk", content |-> "pk1"], [type |-> "P2Pk", content |-> "pk3"],
   [type |-> "P2SH", content |-> "h1"], [type |-> "P2S", content |-> "b2"]}

Messages == {<<>>, <<7>>}

Ok(v) == [tag |-> "Ok", val |-> v]
Err(e) == [tag |-> "Err", err |-> e]

\* error_conversion::to_js: the error rendered into a JsValue
to_js(e) == [jsvalue |-> e]

\* JsValue::from_str: a JsValue that is a plain string
JsValue_from_str(s) == [jsvalue |-> [kind |-> "string", text |-> s]]

(***************************************************************************)
(* ergo_lib::wallet, as the design describes it                            *)
(***************************************************************************)

\* the hints of a bag that belong to one input
HintsFor(bag, idx) == {h \in bag : h.index = idx}

RECURSIVE Provable(_, _, _)
\* a Proposition can be satisfied with the secrets and the hints of the input
Provable(prop, secrets, hints) ==
  CASE prop.op \in {"dlog", "dht"} ->
         \/ \E i \in 1..Len(secrets) : PublicImage(secrets[i]) = prop
         \/ \E h \in hints : h.kind = "proof" /\ h.real /\ h.leaf = prop
    [] prop.op = "and" ->
         \A i \in 1..Len(prop.items) : Provable(prop.items[i], secrets, hints)
    [] prop.op = "or" ->
         \E i \in 1..Len(prop.items) : Provable(prop.items[i], secrets, hints)
    [] OTHER ->
         Cardinality({i \in 1..Len(prop.items) :
                        Provable(prop.items[i], secrets, hints)}) >= prop.k

RECURSIVE LeavesOf(_)
LeavesOf(prop) ==
  IF prop.op \in {"dlog", "dht"} THEN {prop}
  ELSE UNION {LeavesOf(prop.items[i]) : i \in 1..Len(prop.items)}

\* first position (from 1) at which the boxes do not line up with the references, 0 if none
Misaligned(refs, boxes) ==
  LET m == IF Len(refs) > Len(boxes) THEN Len(refs) ELSE Len(boxes)
      bad == {i \in 1..m : i > Len(refs) \/ i > Len(boxes) \/ refs[i] # boxes[i]}
  IN IF bad = {} THEN 0 ELSE CHOOSE i \in bad : \A j \in bad : i <= j

BoxIdAt(refs, boxes, i) == IF i <= Len(refs) THEN refs[i] ELSE boxes[i]

\* TransactionContext::new(unsigned_tx, input_boxes, data_boxes)
TransactionContext_new(tx, boxes_to_spend, data_boxes) ==
  LET i == Misaligned(tx.inputs, boxes_to_spend)
      d == Misaligned(tx.data_inputs, data_boxes)
  IN IF i # 0
       THEN Err([kind |-> "ContextCreationError",
                 box_id |-> BoxIdAt(tx.inputs, boxes_to_spend, i)])
     ELSE IF d # 0
       THEN Err([kind |-> "ContextCreationError",
                 box_id |-> BoxIdAt(tx.data_inputs, data_boxes, d)])
     ELSE Ok([spending_tx |-> tx, boxes_to_spend |-> boxes_to_spend,
              data_boxes |-> data_boxes])

\* the Reduced Transaction of a transaction: every input with its Proposition
Reduce(tx) ==
  [inputs |-> [i \in 1..Len(tx.inputs) |->
                 [box_id |-> tx.inputs[i], prop |-> Guard(tx.inputs[i])]],
   data_inputs |-> tx.data_inputs]

ReducedTxs == {Reduce(tx) : tx \in UnsignedTxs}

\* the signed form of one input
SignedInput(rin) == [box_id |-> rin.box_id, proof |-> [proves |-> rin.prop]]

\* Wallet::sign_reduced_transaction(reduced_tx, hints): inputs in order, all or nothing
core_sign_reduced_transaction(secrets, rtx, bag) ==
  LET failing == {i \in 1..Len(rtx.inputs) :
                    ~Provable(rtx.inputs[i].prop, secrets, HintsFor(bag, i - 1))}
  IN IF failing # {}
       THEN Err([kind |-> "ProvingError",
                 index |-> (CHOOSE i \in failing : \A j \in failing : i <= j) - 1])
       ELSE Ok([inputs |-> [i \in 1..Len(rtx.inputs) |-> SignedInput(rtx.inputs[i])],
                data_inputs |-> rtx.data_inputs])

\* Wallet::sign_transaction(tx_context, state_context, hints): reduce, then sign
core_sign_transaction(secrets, ctx, bag) ==
  core_sign_reduced_transaction(secrets, Reduce(ctx.spending_tx), bag)

\* Wallet::sign_tx_input(input_idx, tx_context, state_context, hints)
core_sign_tx_input(secrets, input_idx, ctx, bag) ==
  LET rtx == Reduce(ctx.spending_tx)
  IN IF input_idx >= Len(rtx.inputs)
       THEN Err([kind |-> "InputBoxNotFound", index |-> input_idx])
     ELSE IF ~Provable(rtx.inputs[input_idx + 1].prop, secrets, HintsFor(bag, input_idx))
       THEN Err([kind |-> "ProvingError", index |-> input_idx])
     ELSE Ok(SignedInput(rtx.inputs[input_idx + 1]))

\* Wallet::generate_commitments_for_reduced_transaction: leaf commitments only
core_generate_commitments_for_reduced_transaction(secrets, rtx) ==
  Ok(UNION {{[index |-> i - 1, kind |-> "commitment",
              real |-> (\E s \in 1..Len(secrets) : PublicImage(secrets[s]) = l),
              leaf |-> l] : l \in LeavesOf(rtx.inputs[i].prop)}
            : i \in 1..Len(rtx.inputs)})

\* Wallet::generate_commitments(tx_context, state_context)
core_generate_commitments(secrets, ctx) ==
  core_generate_commitments_for_reduced_transaction(secrets, Reduce(ctx.spending_tx))

\* Wallet::sign_message(sigma_boolean, message)
core_sign_message(secrets, sb, message) ==
  IF Provable(sb, secrets, {})
    THEN Ok([proves |-> sb, message |-> message])
    ELSE Err([kind |-> "ProvingError"])

\* Wallet::add_secret(secret)
core_add_secret(secrets, secret) == Append(secrets, secret)

\* Wallet::from_secrets(secrets)
core_from_secrets(list) == list

\* Result::map_err(to_js)
map_err_to_js(r) == IF r.tag = "Err" THEN Err(to_js(r.err)) ELSE r

(***************************************************************************)
(* bindings/ergo-lib-wasm/src/wallet.rs: the entry points.                 *)
(* Each returns [ret: what the caller gets, calls: the ergo_lib calls made]*)
(* The state context is passed through unread and is left out.             *)
(***************************************************************************)

\* hints argument None
NoHints == {}

CtxCall == [fn |-> "TransactionContext::new"]

\* Wallet::from_secrets
from_secrets(list) == core_from_secrets(list)

\* a defective add_secret: the store is rebuilt from the new secret alone
add_secret_replace(secrets, secret) == <<secret>>

\* Wallet::add_secret
add_secret(secrets, secret) == core_add_secret(secrets, secret)

\* a defective sign_transaction_multi: on a proving error it hands back the
\* transaction with the proofs it has
sign_transaction_multi_partial(secrets, tx, boxes_to_spend, data_boxes, tx_hints) ==
  LET tx_context == TransactionContext_new(tx, boxes_to_spend, data_boxes)
      rtx == Reduce(tx)
  IN IF tx_context.tag = "Err"
       THEN [ret |-> Err(to_js(tx_context.err)), calls |-> <<CtxCall>>]
       ELSE [ret |-> Ok([inputs |-> [i \in 1..Len(rtx.inputs) |->
                           IF Provable(rtx.inputs[i].prop, secrets, HintsFor(tx_hints, i - 1))
                             THEN SignedInput(rtx.inputs[i])
                             ELSE [box_id |-> rtx.inputs[i].box_id, proof |-> None]],
                         data_inputs |-> rtx.data_inputs]),
             calls |-> <<CtxCall, [fn |-> "Wallet::sign_transaction", hints |-> tx_hints]>>]

\* Wallet::sign_transaction
sign_transaction(secrets, tx, boxes_to_spend, data_boxes) ==
  LET tx_context == TransactionContext_new(tx, boxes_to_spend, data_boxes)
  IN IF tx_context.tag = "Err"
       THEN [ret |-> Err(to_js(tx_context.err)), calls |-> <<CtxCall>>]
       ELSE [ret |-> map_err_to_js(core_sign_transaction(secrets, tx_context.val, NoHints)),
             calls |-> <<CtxCall, [fn |-> "Wallet::sign_transaction", hints |-> NoHints]>>]

\* Wallet::sign_transaction_multi
sign_transaction_multi(secrets, tx, boxes_to_spend, data_boxes, tx_hints) ==
  LET tx_context == TransactionContext_new(tx, boxes_to_spend, data_boxes)
  IN IF tx_context.tag = "Err"
       THEN [ret |-> Err(to_js(tx_context.err)), calls |-> <<CtxCall>>]
       ELSE [ret |-> map_err_to_js(core_sign_transaction(secrets, tx_context.val, tx_hints)),
             calls |-> <<CtxCall, [fn |-> "Wallet::sign_transaction", hints |-> tx_hints]>>]

\* Wallet::sign_reduced_transaction
sign_reduced_transaction(secrets, reduced_tx) ==
  [ret |-> map_err_to_js(core_sign_reduced_transaction(secrets, reduced_tx, NoHints)),
   calls |-> <<[fn |-> "Wallet::sign_reduced_transaction", hints |-> NoHints]>>]

\* Wallet::sign_reduced_transaction_multi
sign_reduced_transaction_multi(secrets, reduced_tx, tx_hints) ==
  [ret |-> map_err_to_js(core_sign_reduced_transaction(secrets, reduced_tx, tx_hints)),
   calls |-> <<[fn |-> "Wallet::sign_reduced_transaction", hints |-> tx_hints]>>]

\* a defective generate_commitments: the context error is dropped and the
\* prover runs on the transaction as given
generate_commitments_unchecked(secrets, tx, boxes_to_spend, data_boxes) ==
  [ret |-> map_err_to_js(core_generate_commitments(secrets, [spending_tx |-> tx])),
   calls |-> <<CtxCall, [fn |-> "Wallet::generate_commitments"]>>]

\* Wallet::generate_commitments
generate_commitments(secrets, tx, boxes_to_spend, data_boxes) ==
  LET tx_context == TransactionContext_new(tx, boxes_to_spend, data_boxes)
  IN IF tx_context.tag = "Err"
       THEN [ret |-> Err(to_js(tx_context.err)), calls |-> <<CtxCall>>]
       ELSE [ret |-> map_err_to_js(core_generate_commitments(secrets, tx_context.val)),
             calls |-> <<CtxCall, [fn |-> "Wallet::generate_commitments"]>>]

\* Wallet::generate_commitments_for_reduced_transaction
generate_commitments_for_reduced_transaction(secrets, reduced_tx) ==
  [ret |-> map_err_to_js(core_generate_commitments_for_reduced_transaction(secrets, reduced_tx)),
   calls |-> <<[fn |-> "Wallet::generate_commitments_for_reduced_transaction"]>>]

\* a defective sign_message_using_p2pk: the address kind is not looked at
sign_message_using_p2pk_any(secrets, address, message) ==
  LET sb == Dlog(address.content)
  IN [ret |-> map_err_to_js(core_sign_message(secrets, sb, message)),
      calls |-> <<[fn |-> "Wallet::sign_message", sb |-> sb, message |-> message]>>]

\* Wallet::sign_message_using_p2pk
sign_message_using_p2pk(secrets, address, message) ==
  IF address.type = "P2Pk"
    THEN LET sb == Dlog(address.content)
         IN [ret |-> map_err_to_js(core_sign_message(secrets, sb, message)),
             calls |-> <<[fn |-> "Wallet::sign_message", sb |-> sb, message |-> message]>>]
    ELSE [ret |-> Err(JsValue_from_str("wallet::sign_message_using_p2pk: Address:P2Pk expected")),
          calls |-> <<>>]

\* a defective sign_tx_input: signs the whole transaction and picks the input
sign_tx_input_whole(secrets, input_idx, tx, boxes_to_spend, data_boxes) ==
  LET tx_context == TransactionContext_new(tx, boxes_to_spend, data_boxes)
      all == core_sign_transaction(secrets, tx_context.val, NoHints)
  IN IF tx_context.tag = "Err"
       THEN [ret |-> Err(to_js(tx_context.err)), calls |-> <<CtxCall>>]
     ELSE [ret |-> IF all.tag = "Err" THEN map_err_to_js(all)
                   ELSE IF input_idx >= Len(tx.inputs)
                     THEN Err(to_js([kind |-> "InputBoxNotFound", index |-> input_idx]))
                     ELSE Ok(all.val.inputs[input_idx + 1]),
           calls |-> <<CtxCall, [fn |-> "Wallet::sign_tx_input",
                                 input_idx |-> input_idx, hints |-> NoHints]>>]

\* Wallet::sign_tx_input: the hints argument of the wallet is None
sign_tx_input(secrets, input_idx, tx, boxes_to_spend, data_boxes) ==
  LET tx_context == TransactionContext_new(tx, boxes_to_spend, data_boxes)
  IN IF tx_context.tag = "Err"
       THEN [ret |-> Err(to_js(tx_context.err)), calls |-> <<CtxCall>>]
       ELSE [ret |-> map_err_to_js(core_sign_tx_input(secrets, input_idx, tx_context.val, NoHints)),
             calls |-> <<CtxCall, [fn |-> "Wallet::sign_tx_input",
                                   input_idx |-> input_idx, hints |-> NoHints]>>]

(***************************************************************************)
(* Wallet: actions, one per entry point                                    *)
(***************************************************************************)

\* no call in flight and no returned value held
Idle == [op |-> "idle"]

Returns(c, r) ==
  /\ call = Idle
  /\ call' = c
  /\ coreCalls' = r.calls
  /\ result' = r.ret
  /\ UNCHANGED <<store, initial, added>>
  /\ UNCHANGED digestVars

BoxLists == SeqsUpTo(BoxIds, MaxInputs + 1)
DataBoxLists == SeqsUpTo(DataBoxIds, 1)

\* the caller lets go of the returned value
Drop ==
  /\ call # Idle
  /\ call' = Idle
  /\ coreCalls' = <<>>
  /\ result' = None
  /\ UNCHANGED <<store, initial, added>>
  /\ UNCHANGED digestVars

AddSecret(secret) ==
  /\ call = Idle
  /\ Len(store) < MaxStore
  /\ store' = add_secret(store, secret)
  /\ added' = Append(added, secret)
  /\ call' = [op |-> "add_secret", secret |-> secret]
  /\ coreCalls' = <<[fn |-> "Wallet::add_secret"]>>
  /\ result' = None
  /\ UNCHANGED initial
  /\ UNCHANGED digestVars

SignTransaction(tx, boxes, dboxes) ==
  Returns([op |-> "sign_transaction", tx |-> tx, boxes_to_spend |-> boxes,
           data_boxes |-> dboxes, hints |-> NoHints],
          sign_transaction(store, tx, boxes, dboxes))

SignTransactionMulti(tx, boxes, dboxes, bag) ==
  Returns([op |-> "sign_transaction_multi", tx |-> tx, boxes_to_spend |-> boxes,
           data_boxes |-> dboxes, hints |-> bag],
          sign_transaction_multi(store, tx, boxes, dboxes, bag))

SignReducedTransaction(rtx) ==
  Returns([op |-> "sign_reduced_transaction", reduced_tx |-> rtx, hints |-> NoHints],
          sign_reduced_transaction(store, rtx))

SignReducedTransactionMulti(rtx, bag) ==
  Returns([op |-> "sign_reduced_transaction_multi", reduced_tx |-> rtx, hints |-> bag],
          sign_reduced_transaction_multi(store, rtx, bag))

GenerateCommitments(tx, boxes, dboxes) ==
  Returns([op |-> "generate_commitments", tx |-> tx, boxes_to_spend |-> boxes,
           data_boxes |-> dboxes],
          generate_commitments(store, tx, boxes, dboxes))

GenerateCommitmentsForReducedTransaction(rtx) ==
  Returns([op |-> "generate_commitments_for_reduced_transaction", reduced_tx |-> rtx],
          generate_commitments_for_reduced_transaction(store, rtx))

SignMessageUsingP2pk(address, message) ==
  Returns([op |-> "sign_message_using_p2pk", address |-> address, message |-> message],
          sign_message_using_p2pk(store, address, message))

SignTxInput(input_idx, tx, boxes, dboxes) ==
  Returns([op |-> "sign_tx_input", input_idx |-> input_idx, tx |-> tx,
           boxes_to_spend |-> boxes, data_boxes |-> dboxes],
          sign_tx_input(store, input_idx, tx, boxes, dboxes))

InitWallet ==
  \E list \in SeqsUpTo(Secrets, MaxStore) :
    /\ store = from_secrets(list)
    /\ initial = list
    /\ added = <<>>
    /\ call = Idle
    /\ coreCalls = <<>>
    /\ result = None

Init == InitWallet /\ InitDigest

CanCall == call = Idle

Next ==
  \/ CanCall /\ \E s \in Secrets : AddSecret(s)
  \/ CanCall /\ \E tx \in UnsignedTxs, b \in BoxLists, d \in DataBoxLists :
       SignTransaction(tx, b, d)
  \/ CanCall /\ \E tx \in UnsignedTxs, b \in BoxLists, d \in DataBoxLists, h \in HintsBags :
       SignTransactionMulti(tx, b, d, h)
  \/ CanCall /\ \E r \in ReducedTxs : SignReducedTransaction(r)
  \/ CanCall /\ \E r \in ReducedTxs, h \in HintsBags : SignReducedTransactionMulti(r, h)
  \/ CanCall /\ \E tx \in UnsignedTxs, b \in BoxLists, d \in DataBoxLists :
       GenerateCommitments(tx, b, d)
  \/ CanCall /\ \E r \in ReducedTxs : GenerateCommitmentsForReducedTransaction(r)
  \/ CanCall /\ \E a \in Addresses, m \in Messages : SignMessageUsingP2pk(a, m)
  \/ CanCall /\ \E i \in 0..MaxInputs, tx \in UnsignedTxs, b \in BoxLists, d \in DataBoxLists :
       SignTxInput(i, tx, b, d)
  \/ Drop

Spec == Init /\ [][Next]_vars

InitDigestOnly ==
  /\ InitDigest
  /\ store = <<>>
  /\ initial = <<>>
  /\ added = <<>>
  /\ call = Idle
  /\ coreCalls = <<>>
  /\ result = None

NextDigest ==
  \/ DigestIdle /\ \E b0 \in {0, 255}, p \in 1..N, b1 \in Byte : FromBytes(b0, p, b1)
  \/ Zero
  \/ IntoString
  \/ DigestIdle /\ \E len \in 0..MaxTextLen, f \in FillChars, p \in 1..MaxTextLen, c \in ExtChars :
       ExternalText(len, f, p, c)
  \/ \E delta \in {-2, -1, 1, 2}, c \in {"0", "f"} : ResizeText(delta, c)
  \/ TryFromString
  \/ DropDigest

SpecDigest == InitDigestOnly /\ [][NextDigest]_vars

(***************************************************************************)
(* Properties of the Digest text encoding (checked under SpecDigest)       *)
(***************************************************************************)

AllHex(s) == \A i \in 1..Len(s) : IsHexChar(s[i])

InvalidSize == [tag |-> "Err", kind |-> "InvalidSize"]
Base16DecodingError == [tag |-> "Err", kind |-> "Base16DecodingError"]

\* C1: decoding the hex string a digest encodes to succeeds and gives back
\* the same N bytes.
C1_RoundTrip ==
  (origin = "encoded" /\ decoded # None) =>
    decoded = [tag |-> "Ok", val |-> digest]

\* a digest with a byte whose two nibbles differ and are letters went round
C1_Witness ==
  /\ origin = "encoded"
  /\ decoded # None
  /\ decoded.tag = "Ok"
  /\ \E i \in 1..N : digest[i] = 171

\* C2 as stated: every string of hexadecimal characters whose length is not
\* 2N, even or odd, decodes to the InvalidSize error.
C2_AnyLengthInvalidSize ==
  (decoded # None /\ AllHex(text) /\ Len(text) # 2 * N) =>
    decoded = InvalidSize

\* C2 amended: a string of hexadecimal characters of even length other than
\* 2N decodes to InvalidSize; one of odd length is rejected by the Base16
\* decoder and decodes to Base16DecodingError; neither gives a digest.
C2_EvenLengthInvalidSize ==
  (decoded # None /\ AllHex(text) /\ Len(text) # 2 * N) =>
    decoded = IF Len(text) % 2 = 0 THEN InvalidSize ELSE Base16DecodingError

\* a hex string longer than 2N, of even length, was refused for its size
C2_Witness ==
  /\ decoded = InvalidSize
  /\ AllHex(text)
  /\ Len(text) = 2 * N + 2

\* C3: a string with a character that is not hexadecimal decodes to
\* Base16DecodingError whatever its length, never to InvalidSize.
C3_NonHexDecodingError ==
  (decoded # None /\ ~AllHex(text)) => decoded = Base16DecodingError

\* a string of a wrong, even length with a non-hex character was decoded
C3_Witness ==
  /\ decoded = Base16DecodingError
  /\ ~AllHex(text)
  /\ Len(text) = 2 * N - 2

(***************************************************************************)
(* Properties of the Wallet entry points (checked under Spec)              *)
(***************************************************************************)

SignOps == {"sign_transaction", "sign_transaction_multi",
            "sign_reduced_transaction", "sign_reduced_transaction_multi"}

ReducedOps == {"sign_reduced_transaction", "sign_reduced_transaction_multi",
               "generate_commitments_for_reduced_transaction"}

CtxOps == {"sign_transaction", "sign_transaction_multi",
           "generate_commitments", "sign_tx_input"}

\* the boxes handed over line up one to one with the references of the transaction
Aligned ==
  /\ Len(call.boxes_to_spend) = Len(call.tx.inputs)
  /\ \A i \in 1..Len(call.tx.inputs) : call.boxes_to_spend[i] = call.tx.inputs[i]
  /\ Len(call.data_boxes) = Len(call.tx.data_inputs)
  /\ \A i \in 1..Len(call.tx.data_inputs) : call.data_boxes[i] = call.tx.data_inputs[i]

\* the inputs of the call with their Propositions
CallInputs ==
  IF call.op \in ReducedOps THEN call.reduced_tx.inputs ELSE Reduce(call.tx).inputs

\* the inputs (from 1) that the secrets and the hints of the call cannot prove
Unprovable ==
  {i \in 1..Len(CallInputs) :
     ~Provable(CallInputs[i].prop, store, HintsFor(call.hints, i - 1))}

\* C4: a whole-transaction signing call whose transaction has an input that
\* cannot be proved returns a ProvingError naming such an input and no
\* transaction; a returned transaction has a proof on every input.
C4_AllOrNothing ==
  (call.op \in SignOps /\ (call.op \in ReducedOps \/ Aligned)) =>
    /\ Unprovable # {} =>
         /\ result.tag = "Err"
         /\ result.err.jsvalue.kind = "ProvingError"
         /\ result.err.jsvalue.index + 1 \in Unprovable
    /\ result.tag = "Ok" =>
         /\ Len(result.val.inputs) = Len(CallInputs)
         /\ \A i \in 1..Len(result.val.inputs) :
              /\ result.val.inputs[i].box_id = CallInputs[i].box_id
              /\ result.val.inputs[i].proof # None

\* a signing call with hints failed although one of its two inputs is provable
C4_Witness ==
  /\ call.op = "sign_transaction_multi"
  /\ Aligned
  /\ Len(CallInputs) = 2
  /\ Cardinality(Unprovable) = 1
  /\ result.tag = "Err"

\* C5: sign_message_using_p2pk fails for every address that is not P2PK,
\* returns no proof and does not call the signer; for a P2PK address it calls
\* the signer once, with the discrete-log statement of the address.
C5_P2pkOnly ==
  call.op = "sign_message_using_p2pk" =>
    IF call.address.type = "P2Pk"
      THEN coreCalls = <<[fn |-> "Wallet::sign_message",
                          sb |-> Dlog(call.address.content),
                          message |-> call.message]>>
      ELSE /\ coreCalls = <<>>
           /\ result = Err([jsvalue |->
                              [kind |-> "string",
                               text |-> "wallet::sign_message_using_p2pk: Address:P2Pk expected"]])

\* a pay-to-script address was refused by a wallet that holds a dlog secret
C5_Witness ==
  /\ call.op = "sign_message_using_p2pk"
  /\ call.address.type = "P2S"
  /\ result.tag = "Err"
  /\ \E i \in 1..Len(store) : store[i] = "s1"

\* C6: the entry points that take an unsigned transaction get past context
\* construction exactly when the boxes line up with the references; otherwise
\* they return ContextCreationError naming a box id of the call and the
\* prover is not run.
C6_ContextChecked ==
  call.op \in CtxOps =>
    IF Aligned
      THEN /\ Len(coreCalls) = 2
           /\ result.tag = "Err" => result.err.jsvalue.kind # "ContextCreationError"
      ELSE /\ result.tag = "Err"
           /\ result.err.jsvalue.kind = "ContextCreationError"
           /\ result.err.jsvalue.box_id \in
                {call.tx.inputs[i] : i \in 1..Len(call.tx.inputs)}
                \cup {call.boxes_to_spend[i] : i \in 1..Len(call.boxes_to_spend)}
                \cup {call.tx.data_inputs[i] : i \in 1..Len(call.tx.data_inputs)}
                \cup {call.data_boxes[i] : i \in 1..Len(call.data_boxes)}
           /\ coreCalls = <<CtxCall>>

\* generate_commitments was refused for the right boxes in the wrong order
C6_Witness ==
  /\ call.op = "generate_commitments"
  /\ Len(call.tx.inputs) = 2
  /\ call.boxes_to_spend = <<call.tx.inputs[2], call.tx.inputs[1]>>
  /\ result.tag = "Err"
  /\ coreCalls = <<CtxCall>>

\* C7: every step leaves the secrets already in the store in place and in
\* order; add_secret puts the given secret at the end and every other call
\* leaves the store as it is, so the store is the from_secrets list followed
\* by the added secrets in call order.
C7_AppendOnly ==
  [][/\ Len(store') >= Len(store)
     /\ SubSeq(store', 1, Len(store)) = store
     /\ call'.op = "add_secret" => store' = Append(store, call'.secret)
     /\ call'.op # "add_secret" => store' = store
     /\ store' = initial' \o added']_vars

\* a secret was added to a store that was not empty, and a signing call followed
C7_Witness ==
  /\ Len(initial) >= 1
  /\ Len(added) >= 1
  /\ store = initial \o added
  /\ call.op = "sign_transaction"
  /\ result.tag = "Ok"

\* C8: over a valid context sign_tx_input(i) returns the signed input i
\* exactly when i is an input of the transaction and its Proposition can be
\* proved with the secrets, whatever the other inputs; otherwise it returns an
\* error for index i.
C8_InputScoped ==
  (call.op = "sign_tx_input" /\ Aligned) =>
    LET inRange == call.input_idx < Len(call.tx.inputs)
    IN /\ result.tag = "Ok" <=>
            (inRange /\ Provable(Guard(call.tx.inputs[call.input_idx + 1]), store, {}))
       /\ result.tag = "Ok" =>
            /\ result.val.box_id = call.tx.inputs[call.input_idx + 1]
            /\ result.val.proof # None
       /\ result.tag = "Err" =>
            /\ result.err.jsvalue.kind =
                 IF inRange THEN "ProvingError" ELSE "InputBoxNotFound"
            /\ result.err.jsvalue.index = call.input_idx

\* one input was signed although another input of the transaction cannot be
C8_Witness ==
  /\ call.op = "sign_tx_input"
  /\ Aligned
  /\ result.tag = "Ok"
  /\ \E j \in 1..Len(call.tx.inputs) :
       /\ j # call.input_idx + 1
       /\ ~Provable(Guard(call.tx.inputs[j]), store, {})

\* C9: whenever sign_transaction_multi signs the transaction with a hints
\* bag, sign_tx_input signs each of its inputs with that bag and returns the
\* same signed input.
C9_HintsMerged ==
  (call.op = "sign_tx_input" /\ Aligned /\ call.input_idx < Len(call.tx.inputs)) =>
    \A h \in HintsBags :
      LET multi == sign_transaction_multi(store, call.tx, call.boxes_to_spend,
                                          call.data_boxes, h).ret
      IN multi.tag = "Ok" =>
           /\ result.tag = "Ok"
           /\ result.val = multi.val.inputs[call.input_idx + 1]

====
